---------------------------- MODULE Spec2Model ----------------------------
(***************************************************************************)
(* Model of the educast-ai pipeline: KnowledgeExtractor.extract_knowledge, *)
(* ScriptGenerator (_get_speaker_config, generate_dialogue_script,         *)
(* format_for_elevenlabs), AudioGenerator.generate_podcast_audio and       *)
(* generate_simple_tts, the orchestrator PodcastGenerator.generate_podcast *)
(* and the extract and generate-podcast handlers of api.py, the latter     *)
(* also with two requests served at the same time.                         *)
(*                                                                         *)
(* Python values are modelled as follows.  A dict is a record; a key that  *)
(* may be missing is a field that may be missing from the record's DOMAIN. *)
(* A list is a sequence.  None and the empty list are both falsy and the   *)
(* code only tests Optional[List] arguments for truthiness, so an absent   *)
(* voice_ids / characteristics argument is the empty sequence.  A function *)
(* that may raise yields Return(v) or Raise(e).                            *)
(***************************************************************************)
EXTENDS Integers, Sequences, FiniteSets, TLC

VARIABLES
    pc,                     \* position inside PodcastGenerator.generate_podcast
    args,                   \* the arguments of the generate_podcast invocation
    script_result,          \* local script_result (the dict object, shared)
    script_returned,        \* the dict exactly as the script stage returned it
    dialogue_script,        \* local dialogue_script
    audio_result,           \* local audio_result
    result,                 \* the value generate_podcast returned
    calls,                  \* external services invoked so far, in order
    file,                   \* the file at output_path
    caller_voice_ids,       \* a caller's voice_ids list object
    caller_characteristics, \* a caller's characteristics list object
    first_call,             \* the first _get_speaker_config call of the caller
    last_call,              \* the latest _get_speaker_config call of the caller
    extraction,             \* the outcome of an extract_knowledge invocation
    request,                \* the HTTP request a handler of api.py is serving
    handler_pc,             \* position inside the handler
    knowledge_result,       \* local knowledge_result of the generate_podcast handler
    http_response,          \* the HTTP response the handler returned
    extractor,              \* module global: TRUE if KnowledgeExtractor() succeeded
    podcast_gen,            \* module global: TRUE if PodcastGenerator() succeeded
    audio_call,             \* the latest direct call of an AudioGenerator method
    workers                 \* the requests served concurrently, by worker thread

vars == <<pc, args, script_result, script_returned, dialogue_script,
          audio_result, result, calls, file, caller_voice_ids,
          caller_characteristics, first_call, last_call, extraction,
          request, handler_pc, knowledge_result, http_response, extractor,
          podcast_gen, audio_call, workers>>

podcast_vars == <<pc, args, script_result, script_returned, dialogue_script,
                  audio_result, result, calls, file>>

speaker_vars == <<caller_voice_ids, caller_characteristics, first_call, last_call>>

api_vars == <<request, handler_pc, knowledge_result, http_response, extractor, podcast_gen>>

-----------------------------------------------------------------------------
(* Bounds of the model. *)

\* num_speakers ranges over MinSpeakers..MaxSpeakers (the code clamps at 4).
MaxSpeakers == 5

\* Longest caller-supplied voice_ids list.
MaxVoiceIds == 2

\* Longest caller-supplied characteristics list.
MaxCharacteristics == 2

\* Longest dialogue the chat-completion service returns.
MaxTurns == 2

\* Most chunks the synthesis stream yields.
MaxChunks == 2

\* Most search_results entries of an answer-service response.
MaxResults == 2

-----------------------------------------------------------------------------
(* Python helpers. *)

None == [none |-> TRUE]

NoneStr == "<None>"

Return(v) == [raised |-> FALSE, value |-> v]

Raise(e) == [raised |-> TRUE, exc |-> e]

Min(a, b) == IF a < b THEN a ELSE b

Max(a, b) == IF a > b THEN a ELSE b

\* s[:n] of a list, negative n included.
Slice(s, n) ==
    LET k == IF n >= 0 THEN Min(n, Len(s)) ELSE Max(Len(s) + n, 0)
    IN  SubSeq(s, 1, k)

\* d.get(k, default)
Get(d, k, default) == IF k \in DOMAIN d THEN d[k] ELSE default

\* All sequences over S of length at most n.
SeqsUpTo(S, n) == UNION {[1..k -> S] : k \in 0..n}

\* A variant that writes the chunks in reverse order.
RECURSIVE Concat_reversed(_)
Concat_reversed(chunks) ==
    IF chunks = <<>> THEN <<>> ELSE Concat_reversed(Tail(chunks)) \o Head(chunks)

RECURSIVE Concat(_)
Concat(chunks) ==
    IF chunks = <<>> THEN <<>> ELSE Head(chunks) \o Concat(Tail(chunks))

-----------------------------------------------------------------------------
(* ScriptGenerator._get_speaker_config *)

available_voices ==
    << "9BWtsMINqrJLrRacOk9x", "IKne3meq5aSn9XLyUdCD", "EXAVITQu4vr4xnSDxMaL",
       "VR6AewLTigWG4xSOukaG", "ThT5KcBeYPX3keUQqHPh", "XB0fDUnXU5powFXDhCwa",
       "ErXwobaYiN019PkySvjV", "MF3mGyEYCl7XYWbV9V6O" >>

\* "Limit to 4 speakers max for better quality"
MaxSupportedSpeakers == 4

\* A variant whose padding restarts at the first pool entry.
PadVoices_restarting(selected_voices, num_speakers) ==
    selected_voices \o Slice(available_voices, Max(num_speakers - Len(selected_voices), 0))

\* while len(selected_voices) < num_speakers: append(available_voices[len % 8])
RECURSIVE PadVoices(_, _)
PadVoices(selected_voices, num_speakers) ==
    IF Len(selected_voices) < num_speakers
    THEN PadVoices(
             Append(selected_voices,
                    available_voices[(Len(selected_voices) % Len(available_voices)) + 1]),
             num_speakers)
    ELSE selected_voices

\* The if/else that fills selected_voices before the clamp.
SelectedVoices(num_speakers, voice_ids) ==
    IF voice_ids # <<>>
    THEN PadVoices(Slice(voice_ids, num_speakers), num_speakers)
    ELSE Slice(available_voices, num_speakers)

ClampSpeakers_three(num_speakers) == Min(num_speakers, 3)

\* num_speakers = min(num_speakers, 4)
ClampSpeakers(num_speakers) == Min(num_speakers, MaxSupportedSpeakers)

CharacteristicKeys ==
    { "expert", "curious", "analytical", "practical", "casual", "energetic",
      "friendly", "humorous", "advocate", "challenger", "moderator", "data-driven" }

characteristic_map ==
    [ k \in CharacteristicKeys |->
        CASE k = "expert"      -> <<"Host/Expert", "Knowledgeable, enthusiastic, clear explainer">>
          [] k = "curious"     -> <<"Curious Learner", "Curious, asks great questions, relatable">>
          [] k = "analytical"  -> <<"Analyst", "Analytical, provides depth and context">>
          [] k = "practical"   -> <<"Practical Expert", "Experienced, shares practical insights">>
          [] k = "casual"      -> <<"Co-host", "Laid-back, conversational, storyteller">>
          [] k = "energetic"   -> <<"Co-host", "Energetic, witty, brings fun facts">>
          [] k = "friendly"    -> <<"Guest", "Friendly, engaging, relatable">>
          [] k = "humorous"    -> <<"Guest", "Humorous, light-hearted, entertaining">>
          [] k = "advocate"    -> <<"Advocate", "Analytical, presents one perspective">>
          [] k = "challenger"  -> <<"Challenger", "Critical thinker, questions assumptions">>
          [] k = "moderator"   -> <<"Moderator", "Balanced, facilitates discussion">>
          [] k = "data-driven" -> <<"Analyst", "Data-driven, provides evidence">> ]

default_names == <<"Alex", "Jordan", "Sam", "Riley">>

speaker_names(style) ==
    IF style = "educational" THEN <<"Alex", "Jordan", "Sam", "Riley">>
    ELSE IF style = "casual" THEN <<"Sam", "Riley", "Alex", "Jordan">>
    ELSE <<"Morgan", "Taylor", "Casey", "Jordan">>

speaker_roles(style) ==
    IF style = "educational"
    THEN <<"Host/Expert", "Curious Learner", "Co-host", "Guest Expert">>
    ELSE IF style = "casual" THEN <<"Co-host", "Co-host", "Guest", "Guest">>
    ELSE <<"Advocate", "Challenger", "Moderator", "Analyst">>

personalities(style) ==
    IF style = "educational"
    THEN << "Knowledgeable, enthusiastic, clear explainer",
            "Curious, asks great questions, relatable",
            "Analytical, provides depth and context",
            "Experienced, shares practical insights" >>
    ELSE IF style = "casual"
    THEN << "Laid-back, conversational, storyteller",
            "Energetic, witty, brings fun facts",
            "Friendly, engaging, relatable",
            "Humorous, light-hearted, entertaining" >>
    ELSE << "Analytical, presents one perspective",
            "Critical thinker, questions assumptions",
            "Balanced, facilitates discussion",
            "Data-driven, provides evidence" >>

\* A variant that names a slot after the style table even when the slot's
\* characteristic is known.
SpeakerEntry_style_named(i, style, characteristics, selected_voices) ==
    [ name        |-> speaker_names(style)[i + 1],
      role        |-> IF i < Len(characteristics)
                         /\ characteristics[i + 1] \in DOMAIN characteristic_map
                      THEN characteristic_map[characteristics[i + 1]][1]
                      ELSE speaker_roles(style)[i + 1],
      personality |-> IF i < Len(characteristics)
                         /\ characteristics[i + 1] \in DOMAIN characteristic_map
                      THEN characteristic_map[characteristics[i + 1]][2]
                      ELSE personalities(style)[i + 1],
      voice_id    |-> selected_voices[i + 1] ]

\* One pass of "for i in range(num_speakers)"; i is the 0-based index of the code.
SpeakerEntry(i, style, characteristics, selected_voices) ==
    IF /\ characteristics # <<>>
       /\ i < Len(characteristics)
       /\ characteristics[i + 1] \in DOMAIN characteristic_map
    THEN [ name        |-> default_names[i + 1],
           role        |-> characteristic_map[characteristics[i + 1]][1],
           personality |-> characteristic_map[characteristics[i + 1]][2],
           voice_id    |-> selected_voices[i + 1] ]
    ELSE [ name        |-> IF i < Len(speaker_names(style))
                           THEN speaker_names(style)[i + 1] ELSE default_names[i + 1],
           role        |-> IF i < Len(speaker_roles(style))
                           THEN speaker_roles(style)[i + 1] ELSE "Speaker",
           personality |-> IF i < Len(personalities(style))
                           THEN personalities(style)[i + 1]
                           ELSE "Engaging conversationalist",
           voice_id    |-> selected_voices[i + 1] ]

RECURSIVE BuildConfigs(_, _, _, _, _)
BuildConfigs(i, num_speakers, style, characteristics, selected_voices) ==
    IF i >= num_speakers
    THEN <<>>
    ELSE <<SpeakerEntry(i, style, characteristics, selected_voices)>>
         \o BuildConfigs(i + 1, num_speakers, style, characteristics, selected_voices)

_get_speaker_config(num_speakers, style, voice_ids, characteristics) ==
    LET n        == ClampSpeakers(num_speakers)
        selected == Slice(SelectedVoices(num_speakers, voice_ids), n)
    IN  BuildConfigs(0, n, style, characteristics, selected)

ArgsAfterCall_aliased(num_speakers, voice_ids, characteristics) ==
    [ voice_ids       |-> IF voice_ids # <<>>
                          THEN PadVoices(voice_ids, num_speakers) ELSE voice_ids,
      characteristics |-> characteristics ]

\* The caller's list objects once _get_speaker_config has returned:
\* voice_ids[:num_speakers] is a fresh list, so the appends of the padding
\* loop never reach the caller's list; characteristics is only read.
ArgsAfterCall(num_speakers, voice_ids, characteristics) ==
    [ voice_ids |-> voice_ids, characteristics |-> characteristics ]

-----------------------------------------------------------------------------
(* ScriptGenerator.generate_dialogue_script *)

\* type(x).__name__ of a parsed JSON null / number
PyTypeName(kind) == IF kind = "null" THEN "NoneType" ELSE "int"

\* The body of the try block.  chat is the behaviour of the chat-completion
\* service for this call: it raises, or it returns a message whose content
\* json.loads rejects, or parses to a non-object, or parses to an object.
ScriptStageBody(topic, num_speakers, style, length, voice_ids, characteristics, chat) ==
    LET speaker_config ==
            _get_speaker_config(num_speakers, style, voice_ids, characteristics)
        dialogue ==
            IF chat.has_dialogue THEN chat.dialogue ELSE [kind |-> "list", items |-> <<>>]
    IN  IF chat.kind = "raise"
        THEN Raise(chat.exc)
        ELSE IF chat.kind = "invalid_json"
        THEN Raise("Expecting value: line 1 column 1 (char 0)")
        ELSE IF chat.kind = "json_array"
        THEN Raise("'list' object has no attribute 'get'")
        ELSE IF dialogue.kind \in {"null", "number"}
        THEN Raise("object of type '" \o PyTypeName(dialogue.kind) \o "' has no len()")
        ELSE Return([ success  |-> TRUE,
                      script   |-> dialogue,
                      metadata |-> [ topic          |-> topic,
                                     num_speakers   |-> num_speakers,
                                     style          |-> style,
                                     length         |-> length,
                                     speaker_config |-> speaker_config ] ])

generate_dialogue_script_generic(topic, num_speakers, style, length, voice_ids, characteristics, chat) ==
    LET body == ScriptStageBody(topic, num_speakers, style, length,
                                voice_ids, characteristics, chat)
    IN  IF body.raised
        THEN [success |-> FALSE, error |-> "Script generation error"]
        ELSE body.value

\* try: ... except Exception as e: return {'success': False, 'error': str(e)}
generate_dialogue_script(topic, num_speakers, style, length, voice_ids, characteristics, chat) ==
    LET body == ScriptStageBody(topic, num_speakers, style, length,
                                voice_ids, characteristics, chat)
    IN  IF body.raised
        THEN [success |-> FALSE, error |-> body.exc]
        ELSE body.value

-----------------------------------------------------------------------------
(* ScriptGenerator.format_for_elevenlabs *)

\* An element of the dialogue that is not a JSON object has no .get
IsObject(turn) == "json_string" \notin DOMAIN turn

\* voice_map.get(speaker_name, default), voice_map being
\* {speaker['name']: speaker['voice_id'] for speaker in speaker_config}:
\* a later entry of the same name replaces an earlier one.
VoiceMapGet(speaker_config, speaker_name, default) ==
    LET named == {i \in 1..Len(speaker_config) : speaker_config[i].name = speaker_name}
    IN  IF named = {}
        THEN default
        ELSE speaker_config[CHOOSE i \in named : \A j \in named : j <= i].voice_id

\* The for loop; formatted is the list built so far.
RECURSIVE FormatTurns(_, _, _)
FormatTurns(turns, speaker_config, formatted) ==
    IF turns = <<>>
    THEN Return(formatted)
    ELSE LET turn == Head(turns)
         IN  IF ~IsObject(turn)
             THEN Raise("'str' object has no attribute 'get'")
             ELSE IF speaker_config = <<>>
             THEN Raise("list index out of range")
             ELSE FormatTurns(
                      Tail(turns), speaker_config,
                      Append(formatted,
                             [ text     |-> Get(turn, "text", ""),
                               voice_id |-> VoiceMapGet(speaker_config,
                                                        Get(turn, "speaker", NoneStr),
                                                        speaker_config[1].voice_id) ]))

format_for_elevenlabs(script, speaker_config) ==
    FormatTurns(script.items, speaker_config, <<>>)

ScriptAfterFormat_annotating(script, speaker_config) ==
    [ script EXCEPT !.items =
        [ i \in DOMAIN script.items |->
            IF IsObject(script.items[i]) /\ speaker_config # <<>>
            THEN [ k \in DOMAIN script.items[i] \cup {"voice_id"} |->
                     IF k = "voice_id"
                     THEN VoiceMapGet(speaker_config,
                                      Get(script.items[i], "speaker", NoneStr),
                                      speaker_config[1].voice_id)
                     ELSE script.items[i][k] ]
            ELSE script.items[i] ] ]

\* The script list object once format_for_elevenlabs is through with it: the
\* turns are only read (turn.get) and the formatted entries are new dicts.
ScriptAfterFormat(script, speaker_config) == script

-----------------------------------------------------------------------------
(* AudioGenerator.generate_podcast_audio *)

NoFile == [exists |-> FALSE, data |-> <<>>]

\* Bytes per "MB" in the estimate: file_size / 1024 / 1024
BytesPerMB == 1048576

\* (file_size / 1024 / 1024) * 60, kept exact as a fraction
EstimatedDuration(file_size) == [num |-> file_size * 60, den |-> BytesPerMB]

\* A variant that writes each chunk to the file as it arrives.
AudioStageBody_streaming(inputs, output_path, synth, before) ==
    IF synth.convert_raises \/ synth.open_raises
    THEN [outcome |-> Raise(synth.exc), file |-> before]
    ELSE LET data == Concat(synth.chunks)
         IN  [ outcome |-> IF synth.stream_raises
                           THEN Raise(synth.exc)
                           ELSE Return([ success            |-> TRUE,
                                         audio_path         |-> output_path,
                                         file_size          |-> Len(data),
                                         estimated_duration |-> EstimatedDuration(Len(data)) ]),
               file    |-> [exists |-> TRUE, data |-> data] ]

\* The body of the try block.  synth is the behaviour of the synthesis service
\* and of open() for this call; inputs is the dialogue_script argument and
\* before is the file at output_path.
AudioStageBody(inputs, output_path, synth, before) ==
    IF synth.convert_raises \/ synth.stream_raises \/ synth.open_raises
    THEN [outcome |-> Raise(synth.exc), file |-> before]
    ELSE LET data == Concat(synth.chunks)
         IN  [ outcome |-> Return([ success            |-> TRUE,
                                    audio_path         |-> output_path,
                                    file_size          |-> Len(data),
                                    estimated_duration |-> EstimatedDuration(Len(data)) ]),
               file    |-> [exists |-> TRUE, data |-> data] ]

\* try: ... except Exception as e: return {'success': False, 'error': str(e)}
generate_podcast_audio(inputs, output_path, synth, before) ==
    LET body == AudioStageBody(inputs, output_path, synth, before)
    IN  [ value |-> IF body.outcome.raised
                    THEN [success |-> FALSE, error |-> body.outcome.exc]
                    ELSE body.outcome.value,
          file  |-> body.file ]

-----------------------------------------------------------------------------
(* PodcastGenerator.generate_podcast *)

\* A variant that calls the script stage again after a failure.
StepAfterScript_retrying(script_res) ==
    IF ~script_res.success THEN "script_stage" ELSE "format"

StepAfterScript_unchecked(script_res) ==
    IF script_res.success THEN "format" ELSE "audio_stage"

\* if not script_result['success']: return ...   else go on to Step 2
StepAfterScript(script_res) ==
    IF ~script_res.success THEN "done" ELSE "format"

\* {'success': False, 'error': f"Script generation failed: {script_result.get('error')}"}
ScriptFailedResult(script_res) ==
    [ success |-> FALSE,
      error   |-> "Script generation failed: " \o Get(script_res, "error", "None") ]

AudioFailedResult_mislabelled(audio_res) ==
    [ success |-> FALSE,
      error   |-> "Script generation failed: " \o Get(audio_res, "error", "None") ]

\* {'success': False, 'error': f"Audio generation failed: {audio_result.get('error')}"}
AudioFailedResult(audio_res) ==
    [ success |-> FALSE,
      error   |-> "Audio generation failed: " \o Get(audio_res, "error", "None") ]

\* A variant that keeps only the topic of the script metadata.
MergedMetadata_topic_only(metadata, audio_res) ==
    [ topic              |-> metadata.topic,
      file_size          |-> audio_res.file_size,
      estimated_duration |-> audio_res.estimated_duration ]

\* {**script_result['metadata'], 'file_size': ..., 'estimated_duration': ...}
MergedMetadata(metadata, audio_res) ==
    [ k \in DOMAIN metadata \cup {"file_size", "estimated_duration"} |->
        IF k = "file_size" THEN audio_res.file_size
        ELSE IF k = "estimated_duration" THEN audio_res.estimated_duration
        ELSE metadata[k] ]

\* The dict of the final return statement.
SuccessResult(script_res, audio_res) ==
    [ success    |-> TRUE,
      audio_path |-> audio_res.audio_path,
      script     |-> script_res.script,
      metadata   |-> MergedMetadata(script_res.metadata, audio_res) ]

\* What generate_podcast does once generate_podcast_audio has returned.
AfterAudio(script_res, audio_res) ==
    IF ~audio_res.success
    THEN Return(AudioFailedResult(audio_res))
    ELSE IF {"script", "metadata"} \subseteq DOMAIN script_res
    THEN Return(SuccessResult(script_res, audio_res))
    ELSE Raise("KeyError")

-----------------------------------------------------------------------------
(* The inputs and the behaviours of the external services. *)

Styles == {"educational", "casual", "debate"}

Lengths == {"short", "medium"}

SpeakerCounts == 0..MaxSpeakers

\* voice_ids / characteristics arguments of the pipeline runs.
PipelineVoiceIds == {<<>>, <<"custom_voice_A">>}

PipelineCharacteristics == {<<>>, <<"expert">>}

TurnAlex == [speaker |-> "Alex", text |-> "[enthusiastically] Welcome!", emotion |-> "enthusiastic"]

\* A turn of a speaker no style table names, without text.
TurnGhost == [speaker |-> "Ghost", emotion |-> "calm"]

\* A turn without speaker.
TurnAnonymous == [text |-> "[curious] Why?", emotion |-> "curious"]

\* A dialogue element that is a JSON string, not an object.
NonObject == [json_string |-> "oops"]

TurnPool == {TurnAlex, TurnGhost, TurnAnonymous, NonObject}

DialogueValues ==
    {[kind |-> "list", items |-> t] : t \in SeqsUpTo(TurnPool, MaxTurns)}
    \cup {[kind |-> k, items |-> <<>>] : k \in {"null", "number", "string"}}
    \cup {[kind |-> "string", items |-> <<NonObject>>]}

ChatOutcomes ==
    { [kind |-> "raise", exc |-> "Connection error.", has_dialogue |-> FALSE],
      [kind |-> "invalid_json", has_dialogue |-> FALSE],
      [kind |-> "json_array", has_dialogue |-> FALSE],
      [kind |-> "json_object", has_dialogue |-> FALSE] }
    \cup {[kind |-> "json_object", has_dialogue |-> TRUE, dialogue |-> d] : d \in DialogueValues}

ChunkPool == {<<1>>, <<2, 3>>}

SynthOutcomes ==
    { [ convert_raises |-> c, stream_raises |-> s, open_raises |-> o,
        chunks |-> ch, exc |-> IF c THEN "quota_exceeded"
                               ELSE IF s THEN "stream interrupted"
                               ELSE "No such file or directory" ] :
        c \in BOOLEAN, s \in BOOLEAN, o \in BOOLEAN, ch \in SeqsUpTo(ChunkPool, MaxChunks) }

OutputPath == "podcasts/machine_learning.mp3"

StaleFile == [exists |-> TRUE, data |-> <<9>>]

-----------------------------------------------------------------------------
(* The steps of one generate_podcast invocation; the two service calls are  *)
(* its suspension points.                                                   *)

Invoke(num_speakers, style, length, voice_ids, characteristics) ==
    /\ pc = "idle"
    /\ pc' = "script_stage"
    /\ args' = [ knowledge       |-> "Machine learning is ...",
                 topic           |-> "machine learning",
                 output_path     |-> OutputPath,
                 num_speakers    |-> num_speakers,
                 style           |-> style,
                 length          |-> length,
                 voice_ids       |-> voice_ids,
                 characteristics |-> characteristics ]
    /\ UNCHANGED <<script_result, script_returned, dialogue_script, audio_result,
                   result, calls, file, speaker_vars, extraction, api_vars, audio_call, workers>>

RunScriptStage(chat) ==
    /\ pc = "script_stage"
    /\ LET r == generate_dialogue_script(args.topic, args.num_speakers, args.style,
                                         args.length, args.voice_ids,
                                         args.characteristics, chat)
       IN  /\ script_result' = r
           /\ script_returned' = r
           /\ pc' = StepAfterScript(r)
           /\ result' = IF StepAfterScript(r) = "done"
                        THEN Return(ScriptFailedResult(r)) ELSE result
    /\ calls' = Append(calls, "chat_completion")
    /\ UNCHANGED <<args, dialogue_script, audio_result, file>>

ScriptStage(chat) ==
    /\ RunScriptStage(chat)
    /\ UNCHANGED <<speaker_vars, extraction, api_vars, audio_call, workers>>

RunFormatStep ==
    /\ pc = "format"
    /\ LET f == format_for_elevenlabs(script_result.script,
                                      script_result.metadata.speaker_config)
       IN  /\ script_result' =
                 [script_result EXCEPT !.script =
                     ScriptAfterFormat(@, script_result.metadata.speaker_config)]
           /\ IF f.raised
              THEN /\ pc' = "raised"
                   /\ result' = Raise(f.exc)
                   /\ UNCHANGED dialogue_script
              ELSE /\ pc' = "audio_stage"
                   /\ dialogue_script' = f.value
                   /\ UNCHANGED result
    /\ UNCHANGED <<args, script_returned, audio_result, calls, file>>

FormatStep ==
    /\ RunFormatStep
    /\ UNCHANGED <<speaker_vars, extraction, api_vars, audio_call, workers>>

RunAudioStage(synth) ==
    /\ pc = "audio_stage"
    /\ LET out == generate_podcast_audio(dialogue_script, args.output_path, synth, file)
           ret == AfterAudio(script_result, out.value)
       IN  /\ audio_result' = out.value
           /\ file' = out.file
           /\ result' = ret
           /\ pc' = IF ret.raised THEN "raised" ELSE "done"
    /\ calls' = Append(calls, "synthesis")
    /\ UNCHANGED <<args, script_result, script_returned, dialogue_script>>

AudioStage(synth) ==
    /\ RunAudioStage(synth)
    /\ UNCHANGED <<speaker_vars, extraction, api_vars, audio_call, workers>>

InitPodcast ==
    /\ pc = "idle"
    /\ args = None
    /\ script_result = None
    /\ script_returned = None
    /\ dialogue_script = None
    /\ audio_result = None
    /\ result = None
    /\ calls = <<>>

InitSpeakers ==
    /\ caller_voice_ids = <<>>
    /\ caller_characteristics = <<>>
    /\ first_call = None
    /\ last_call = None

InitExtraction == extraction = None

InitAudioCall == audio_call = None /\ workers = None

\* No request is being served; both module globals were initialised.
InitApi ==
    /\ request = None
    /\ handler_pc = "idle"
    /\ knowledge_result = None
    /\ http_response = None
    /\ extractor = TRUE
    /\ podcast_gen = TRUE

Init ==
    /\ InitPodcast
    /\ file \in {NoFile, StaleFile}
    /\ InitSpeakers
    /\ InitExtraction
    /\ InitApi
    /\ InitAudioCall

Next ==
    \/ \E n \in SpeakerCounts, style \in Styles, length \in Lengths,
          v \in PipelineVoiceIds, c \in PipelineCharacteristics :
            Invoke(n, style, length, v, c)
    \/ \E chat \in ChatOutcomes : ScriptStage(chat)
    \/ FormatStep
    \/ \E synth \in SynthOutcomes : AudioStage(synth)

Spec == Init /\ [][Next]_vars

-----------------------------------------------------------------------------
(* A caller of _get_speaker_config that keeps its voice_ids and            *)
(* characteristics lists and calls again and again; first_call and         *)
(* last_call record the inputs and the result of the first and the latest  *)
(* call, and last_call.again tells the latest apart from the first.        *)

VoiceIdInputs == {"", "custom_voice_A"}

CharacteristicInputs == {"expert", "bogus"}

CallGetSpeakerConfig(num_speakers, style) ==
    /\ LET rec == [ again           |-> last_call # None,
                    num_speakers    |-> num_speakers,
                    style           |-> style,
                    voice_ids       |-> caller_voice_ids,
                    characteristics |-> caller_characteristics,
                    configs         |-> _get_speaker_config(num_speakers, style,
                                                            caller_voice_ids,
                                                            caller_characteristics) ]
           after == ArgsAfterCall(num_speakers, caller_voice_ids, caller_characteristics)
       IN  /\ last_call' = rec
           /\ first_call' = IF first_call = None THEN rec ELSE first_call
           /\ caller_voice_ids' = after.voice_ids
           /\ caller_characteristics' = after.characteristics
    /\ UNCHANGED <<podcast_vars, extraction, api_vars, audio_call, workers>>

InitSpeakerCalls ==
    /\ InitPodcast
    /\ file = NoFile
    /\ InitExtraction
    /\ InitApi
    /\ InitAudioCall
    /\ caller_voice_ids \in SeqsUpTo(VoiceIdInputs, MaxVoiceIds)
    /\ caller_characteristics \in SeqsUpTo(CharacteristicInputs, MaxCharacteristics)
    /\ first_call = None
    /\ last_call = None

NextSpeakerCalls ==
    \E n \in SpeakerCounts, style \in Styles : CallGetSpeakerConfig(n, style)

SpecSpeakers == InitSpeakerCalls /\ [][NextSpeakerCalls]_vars

-----------------------------------------------------------------------------
(* Properties of PodcastGenerator.generate_podcast, checked under Spec. *)

Range(f) == {f[i] : i \in DOMAIN f}

ScriptStageFailed == script_returned # None /\ ~script_returned.success

AudioStageFailed == audio_result # None /\ ~audio_result.success

Returned == pc = "done" /\ ~result.raised

\* Every error text a stage can report in this model.
StageErrorTexts ==
    {"Connection error.", "Expecting value: line 1 column 1 (char 0)",
     "'list' object has no attribute 'get'", "object of type 'NoneType' has no len()",
     "object of type 'int' has no len()", "None"}
    \cup {o.exc : o \in SynthOutcomes}

\* C1: whenever the script stage returned success=false, the audio stage
\* (the synthesis service) has not been and is never invoked in that
\* invocation, whatever the chat-completion service did.
C1_NoAudioAfterScriptFailure ==
    ScriptStageFailed => "synthesis" \notin Range(calls)

\* C1 witness: the invocation is over, the script stage failed on content
\* that json.loads rejects, and the orchestrator has returned.
C1_Witness ==
    /\ Returned
    /\ ScriptStageFailed
    /\ script_returned.error = "Expecting value: line 1 column 1 (char 0)"
    /\ calls = <<"chat_completion">>

\* C2: every invocation of generate_podcast ends by returning a tagged
\* {success, ...} value and never raises to its caller, for any num_speakers
\* and any script content; the formatting step cannot fail.
C2_NeverRaises ==
    /\ pc # "raised"
    /\ pc = "done" => ~result.raised /\ "success" \in DOMAIN result.value

\* C3: a failed result is "Script generation failed: <script stage error>"
\* exactly when the script stage failed, "Audio generation failed: <audio
\* stage error>" exactly when the script stage succeeded and the audio stage
\* failed, and it carries nothing but success and error.
C3_ErrorIdentifiesStage ==
    (Returned /\ ~result.value.success) =>
        LET r == result.value
            labelled(prefix) == \E e \in StageErrorTexts : r.error = prefix \o e
        IN  /\ DOMAIN r = {"success", "error"}
            /\ labelled("Script generation failed: ") <=> ScriptStageFailed
            /\ labelled("Audio generation failed: ") <=>
                   (~ScriptStageFailed /\ AudioStageFailed)
            /\ ScriptStageFailed =>
                   r.error = "Script generation failed: " \o script_returned.error
            /\ (~ScriptStageFailed /\ AudioStageFailed) =>
                   r.error = "Audio generation failed: " \o audio_result.error

\* C3 witness: the script stage succeeded, the synthesis stream broke off and
\* generate_podcast returned the failure.
C3_Witness ==
    /\ Returned
    /\ ~result.value.success
    /\ script_returned.success
    /\ AudioStageFailed
    /\ audio_result.error = "stream interrupted"

\* C4: in every successful result the script field is exactly the script the
\* script stage returned, and neither format_for_elevenlabs nor the audio
\* stage changes the script object or its turns on the way.
C4_ScriptUnchanged ==
    /\ (script_returned # None /\ script_returned.success) =>
           script_result.script = script_returned.script
    /\ (Returned /\ result.value.success) =>
           result.value.script = script_returned.script

\* C4 witness: a successful run whose script has at least two turns.
C4_Witness ==
    /\ Returned
    /\ result.value.success
    /\ Len(result.value.script.items) >= 2
    /\ Len(dialogue_script) = Len(result.value.script.items)

\* C8: format_for_elevenlabs returns one {text, voice_id} entry per turn, in
\* order; entry i has turn i's text and the voice_id of the SpeakerConfig
\* whose name is turn i's speaker; a turn whose speaker no SpeakerConfig
\* names gets the first configured speaker's voice_id.
C8_FormatResolvesVoices ==
    pc = "audio_stage" =>
        LET turns  == script_returned.script.items
            config == script_returned.metadata.speaker_config
        IN  /\ Len(dialogue_script) = Len(turns)
            /\ \A i \in 1..Len(turns) :
                 /\ dialogue_script[i].text = Get(turns[i], "text", "")
                 /\ \A k \in 1..Len(config) :
                        config[k].name = Get(turns[i], "speaker", NoneStr) =>
                            dialogue_script[i].voice_id = config[k].voice_id
                 /\ (\A k \in 1..Len(config) :
                        config[k].name # Get(turns[i], "speaker", NoneStr)) =>
                            dialogue_script[i].voice_id = config[1].voice_id

-----------------------------------------------------------------------------
(* Properties of _get_speaker_config, checked under SpecSpeakers. *)

Called == last_call # None

InSupportedRange == Called /\ last_call.num_speakers \in 1..MaxSupportedSpeakers

\* C5 as stated: for num_speakers in 1..4 and any style, voice_ids and
\* characteristics, exactly min(num_speakers, 4) entries come back and every
\* entry has a non-empty voice_id.
C5_CountAndNonEmptyVoice ==
    InSupportedRange =>
        /\ Len(last_call.configs) = Min(last_call.num_speakers, 4)
        /\ \A i \in 1..Len(last_call.configs) : last_call.configs[i].voice_id # ""

\* C5 amended: for num_speakers in 1..4 and any style, voice_ids and
\* characteristics, exactly min(num_speakers, 4) entries come back, and every
\* entry has a non-empty voice_id provided every caller-supplied voice id is
\* non-empty (a supplied empty string is passed through as it is).
C5_CountAndVoiceNonEmptyUnlessSupplied ==
    InSupportedRange =>
        /\ Len(last_call.configs) = Min(last_call.num_speakers, 4)
        /\ (\A j \in 1..Len(last_call.voice_ids) : last_call.voice_ids[j] # "") =>
               \A i \in 1..Len(last_call.configs) : last_call.configs[i].voice_id # ""

\* C5 witness: four speakers, one supplied voice id, the other three voices
\* padded from the default pool.
C5_Witness ==
    /\ Called
    /\ last_call.num_speakers = 4
    /\ last_call.voice_ids = <<"custom_voice_A">>
    /\ Len(last_call.configs) = 4
    /\ last_call.configs[4].voice_id = available_voices[4]

SameInputs(a, b) ==
    /\ a.num_speakers = b.num_speakers
    /\ a.style = b.style
    /\ a.voice_ids = b.voice_ids
    /\ a.characteristics = b.characteristics

C7_NamesUnique ==
    InSupportedRange =>
        \A i, j \in 1..Len(last_call.configs) :
            i # j => last_call.configs[i].name # last_call.configs[j].name

-----------------------------------------------------------------------------
(* KnowledgeExtractor.extract_knowledge and _extract_sources *)

\* getattr(obj, name, default)
GetAttr(obj, name, default) == IF name \in DOMAIN obj THEN obj[name] ELSE default

\* hasattr(response, name); None has none of the attributes
HasAttr(response, name) == name \in DOMAIN response

\* A variant that reads only dict-like search results.
SourceOf_dict_only(res) ==
    [ title           |-> IF res.is_dict THEN Get(res.fields, "title", "Unknown") ELSE "Unknown",
      url             |-> IF res.is_dict THEN Get(res.fields, "url", "") ELSE "",
      source          |-> IF res.is_dict THEN Get(res.fields, "source", "Web") ELSE "Web",
      relevance_score |-> IF res.is_dict THEN Get(res.fields, "relevance_score", 0) ELSE 0 ]

\* One pass of the loop of _extract_sources: a search result is dict-like or
\* attribute-like.
SourceOf(res) ==
    [ title           |-> IF res.is_dict THEN Get(res.fields, "title", "Unknown")
                          ELSE GetAttr(res.fields, "title", "Unknown"),
      url             |-> IF res.is_dict THEN Get(res.fields, "url", "")
                          ELSE GetAttr(res.fields, "url", ""),
      source          |-> IF res.is_dict THEN Get(res.fields, "source", "Web")
                          ELSE GetAttr(res.fields, "source", "Web"),
      relevance_score |-> IF res.is_dict THEN Get(res.fields, "relevance_score", 0)
                          ELSE GetAttr(res.fields, "relevance_score", 0) ]

\* search_results is a list, or a truthy value that cannot be iterated.
_extract_sources(response) ==
    IF HasAttr(response, "search_results")
       /\ response.search_results # [kind |-> "list", items |-> <<>>]
    THEN IF response.search_results.kind = "list"
         THEN Return([ i \in DOMAIN response.search_results.items |->
                         SourceOf(response.search_results.items[i]) ])
         ELSE Raise("'int' object is not iterable")
    ELSE Return(<<>>)

\* The body of the try block.  service is what self.valyu.answer does for
\* this call: it raises, or it returns None or a response object.
ExtractBody(query, service) ==
    IF service.raises
    THEN Raise(service.exc)
    ELSE LET response == service.response
         IN  IF response # None /\ HasAttr(response, "success") /\ response.success
             THEN LET sources == _extract_sources(response)
                  IN  IF sources.raised
                      THEN sources
                      ELSE Return([ success      |-> TRUE,
                                    query        |-> query,
                                    answer       |-> IF HasAttr(response, "contents")
                                                     THEN response.contents ELSE "",
                                    raw_response |-> response,
                                    sources      |-> sources.value ])
             ELSE IF response # None /\ HasAttr(response, "error") /\ response.error # ""
             THEN Return([ success      |-> FALSE,
                           query        |-> query,
                           error        |-> "API Error: " \o response.error,
                           raw_response |-> response ])
             ELSE Return([ success      |-> FALSE,
                           query        |-> query,
                           error        |-> "No content received from Valyu.ai",
                           raw_response |-> response ])

extract_knowledge_unguarded(query, service) == ExtractBody(query, service)

\* try: ... except Exception as e:
\*     return {'success': False, 'query': query, 'error': str(e)}
extract_knowledge(query, service) ==
    LET body == ExtractBody(query, service)
    IN  IF body.raised
        THEN Return([success |-> FALSE, query |-> query, error |-> body.exc])
        ELSE body

-----------------------------------------------------------------------------
(* The behaviours of the answer service. *)

SearchResultPool ==
    { [ is_dict |-> TRUE,
        fields  |-> [ title |-> "Machine learning", url |-> "https://a.example/ml",
                      source |-> "Encyclopedia", relevance_score |-> 9 ] ],
      [ is_dict |-> TRUE, fields |-> [title |-> "Only a title"] ],
      [ is_dict |-> FALSE,
        fields  |-> [url |-> "https://b.example", relevance_score |-> 5] ] }

SearchResultValues ==
    {[kind |-> "list", items |-> r] : r \in SeqsUpTo(SearchResultPool, MaxResults)}
    \cup {[kind |-> "int", items |-> <<>>]}

ResponseObject(attrs, success, error, search_results) ==
    [ a \in attrs \cup {"type"} |->
        CASE a = "type"           -> "AnswerResponse"
          [] a = "success"        -> success
          [] a = "error"          -> error
          [] a = "contents"       -> "Machine learning is ..."
          [] a = "search_results" -> search_results ]

AnswerResponses ==
    { ResponseObject(attrs, s, e, r) :
        attrs \in SUBSET {"success", "error", "contents", "search_results"},
        s \in BOOLEAN, e \in {"", "quota exceeded"}, r \in SearchResultValues }

AnswerOutcomes ==
    {[raises |-> TRUE, exc |-> e] : e \in {"Connection refused", ""}}
    \cup {[raises |-> FALSE, response |-> r] : r \in AnswerResponses \cup {None}}

Queries == {"What is machine learning?", "quantum/entanglement basics"}

ExtractKnowledge(query, service) ==
    /\ extraction = None
    /\ extraction' = [ query   |-> query,
                       service |-> service,
                       result  |-> extract_knowledge(query, service) ]
    /\ UNCHANGED <<podcast_vars, speaker_vars, api_vars, audio_call, workers>>

InitExtract ==
    /\ InitPodcast
    /\ file = NoFile
    /\ InitSpeakers
    /\ InitExtraction
    /\ InitApi
    /\ InitAudioCall

NextExtract ==
    \E q \in Queries, service \in AnswerOutcomes : ExtractKnowledge(q, service)

SpecExtract == InitExtract /\ [][NextExtract]_vars

-----------------------------------------------------------------------------
(* Properties of extract_knowledge, checked under SpecExtract. *)

Extracted == extraction # None

ReportsSuccess(service) ==
    /\ ~service.raises
    /\ service.response # None
    /\ HasAttr(service.response, "success")
    /\ service.response.success

ReportsError(service) ==
    /\ ~service.raises
    /\ service.response # None
    /\ HasAttr(service.response, "error")
    /\ service.response.error # ""

C10_UniformShape ==
    (Extracted /\ ~extraction.result.raised) =>
        LET r == extraction.result.value
        IN  /\ {"success", "query", "answer", "sources"} \subseteq DOMAIN r
            /\ ~r.success => "error" \in DOMAIN r


-----------------------------------------------------------------------------
(* The HTTP handlers of api.py.  A string a handler inspects is a sequence *)
(* of one-character strings.  The JSON body of a request is None (no       *)
(* body) or a record with the marker field "object" and one field per key  *)
(* of the JSON object; a JSON string value is [str |-> characters].        *)

Whitespace == {" ", "\t", "\n"}

RECURSIVE LStrip(_)
LStrip(s) ==
    IF s # <<>> /\ Head(s) \in Whitespace THEN LStrip(Tail(s)) ELSE s

RECURSIVE RStrip(_)
RStrip(s) ==
    IF s # <<>> /\ s[Len(s)] \in Whitespace THEN RStrip(SubSeq(s, 1, Len(s) - 1)) ELSE s

\* str.strip()
Strip(s) == RStrip(LStrip(s))

\* str.replace(old, new) for one-character old and new
Replace(s, old, new) == [i \in DOMAIN s |-> IF s[i] = old THEN new ELSE s[i]]

JsonKeys(data) == DOMAIN data \ {"object"}

\* not data
Falsy(data) == data = None \/ JsonKeys(data) = {}

IsStr(value) == "str" \in DOMAIN value

Response(status, body) == [status |-> status, body |-> body]

FilenameLimit == 50

PODCASTS_DIR == "podcasts"

\* query[:50].replace(' ', '_').replace('/', '_')
safe_filename(query) == Replace(Replace(Slice(query, FilenameLimit), " ", "_"), "/", "_")

\* os.path.join(PODCASTS_DIR, f"{safe_filename}.mp3")
output_path_of(query) ==
    [dir |-> PODCASTS_DIR, name |-> safe_filename(query) \o <<".", "m", "p", "3">>]

\* os.path.basename
basename(path) == path.name

B64Alphabet ==
    << "A", "B", "C", "D", "E", "F", "G", "H", "I", "J", "K", "L", "M", "N", "O", "P",
       "Q", "R", "S", "T", "U", "V", "W", "X", "Y", "Z", "a", "b", "c", "d", "e", "f",
       "g", "h", "i", "j", "k", "l", "m", "n", "o", "p", "q", "r", "s", "t", "u", "v",
       "w", "x", "y", "z", "0", "1", "2", "3", "4", "5", "6", "7", "8", "9", "+", "/" >>

\* base64.b64encode(...).decode('utf-8'): three bytes give four characters,
\* a shorter last group is padded with "=".
RECURSIVE b64encode(_)
b64encode(bytes) ==
    IF bytes = <<>>
    THEN <<>>
    ELSE LET n  == Len(bytes)
             b2 == IF n >= 2 THEN bytes[2] ELSE 0
             b3 == IF n >= 3 THEN bytes[3] ELSE 0
             v  == bytes[1] * 65536 + b2 * 256 + b3
             c(k) == B64Alphabet[((v \div (64 ^ (3 - k))) % 64) + 1]
         IN  << c(0), c(1), IF n >= 2 THEN c(2) ELSE "=", IF n >= 3 THEN c(3) ELSE "=" >>
             \o b64encode(SubSeq(bytes, 4, n))


-----------------------------------------------------------------------------
(* POST /api/extract: the whole handler; it calls the answer service at    *)
(* most once.  The result is the response and the extract_knowledge call   *)
(* made, if any.                                                           *)

NoCall(resp) == [response |-> resp, called |-> FALSE]

ServerError(exc) == Response(500, [success |-> FALSE, error |-> "Server error: " \o exc])

api_extract_knowledge(data, ready, service) ==
    IF Falsy(data) \/ "query" \notin JsonKeys(data)
    THEN NoCall(Response(400,
             [ success |-> FALSE,
               error   |-> "No query provided. Please send {\"query\": \"your question\"}" ]))
    ELSE IF ~IsStr(data.query)
    THEN NoCall(ServerError("'NoneType' object has no attribute 'strip'"))
    ELSE LET query == Strip(data.query.str)
         IN  IF query = <<>>
             THEN NoCall(Response(400, [success |-> FALSE, error |-> "Query cannot be empty"]))
             ELSE IF ~ready
             THEN NoCall(Response(500,
                      [ success |-> FALSE,
                        error   |-> "Knowledge extractor not initialized. Check API key." ]))
             ELSE LET r == extract_knowledge(query, service).value
                  IN  [ called   |-> TRUE,
                        query    |-> query,
                        result   |-> r,
                        response |->
                          IF r.success
                          THEN Response(200, [ success |-> TRUE,
                                               query   |-> r.query,
                                               answer  |-> r.answer,
                                               sources |-> Get(r, "sources", <<>>) ])
                          ELSE Response(200, [ success |-> FALSE,
                                               error   |-> Get(r, "error", "Unknown error") ]) ]

(* POST /api/generate-podcast, up to its first service call. *)
generate_podcast_entry(data, gen_ready, ext_ready) ==
    IF Falsy(data) \/ "query" \notin JsonKeys(data)
    THEN Raise(Response(400, [success |-> FALSE, error |-> "No query provided"]))
    ELSE IF ~IsStr(data.query)
    THEN Raise(ServerError("'NoneType' object has no attribute 'strip'"))
    ELSE IF ~gen_ready
    THEN Raise(Response(500,
             [ success |-> FALSE,
               error   |-> "Podcast generator not initialized. Check API keys." ]))
    ELSE IF ~ext_ready
    THEN Raise(ServerError("'NoneType' object has no attribute 'extract_knowledge'"))
    ELSE Return([ query        |-> Strip(data.query.str),
                  style        |-> Get(data, "style", "educational"),
                  length       |-> Get(data, "length", "medium"),
                  num_speakers |-> Get(data, "num_speakers", 2) ])

\* A variant that returns the audio at the output path whenever a file is
\* there, whatever generate_podcast reported.
generate_podcast_response_unchecked(ret, f) ==
    IF ret.raised
    THEN ServerError(ret.exc)
    ELSE IF ~f.exists
    THEN Response(500, [success |-> FALSE, error |-> Get(ret.value, "error", None)])
    ELSE Response(200, [ success        |-> TRUE,
                         audio_data     |-> b64encode(f.data),
                         audio_filename |-> <<>>,
                         script         |-> Get(ret.value, "script", <<>>),
                         metadata       |-> Get(ret.value, "metadata", None) ])

\* The response once podcast_gen.generate_podcast has returned ret (or
\* raised), f being the file at the output path.
generate_podcast_response(ret, f) ==
    IF ret.raised
    THEN ServerError(ret.exc)
    ELSE IF ~ret.value.success
    THEN Response(500, [success |-> FALSE, error |-> Get(ret.value, "error", None)])
    ELSE IF ~f.exists
    THEN ServerError("No such file or directory")
    ELSE Response(200, [ success        |-> TRUE,
                         audio_data     |-> b64encode(f.data),
                         audio_filename |-> basename(ret.value.audio_path),
                         script         |-> ret.value.script,
                         metadata       |-> ret.value.metadata ])


-----------------------------------------------------------------------------
(* The requests and the behaviours of the answer service seen by the       *)
(* handlers.                                                               *)

\* A query longer than the file name limit, with a space in it.
LongQuery == [i \in 1..(FilenameLimit + 2) |-> IF i = 3 THEN " " ELSE "x"]

QueryValues ==
    { None,
      [str |-> <<>>],
      [str |-> <<" ", "\t">>],
      [str |-> <<" ", "M", "L", "\n">>],
      [str |-> <<"a", "/", "b", " ", "c">>],
      [str |-> <<"a", "\t", "b">>],
      [str |-> LongQuery] }

\* JSON objects without a query: {}, and two sets of options.
RequestOptions ==
    { [object |-> TRUE],
      [object |-> TRUE, num_speakers |-> 0],
      [object |-> TRUE, num_speakers |-> 3, style |-> "debate", length |-> "short"] }

RequestBodies ==
    {None} \cup RequestOptions
    \cup {o @@ [query |-> q] : o \in RequestOptions, q \in QueryValues}

ApiAnswerOutcomes ==
    { [raises |-> TRUE, exc |-> "Connection refused"],
      [raises |-> FALSE, response |-> None],
      [raises |-> FALSE,
       response |-> ResponseObject({"success", "error"}, FALSE, "quota exceeded",
                                   [kind |-> "list", items |-> <<>>])],
      [raises |-> FALSE,
       response |-> ResponseObject({"success", "contents", "search_results"}, TRUE, "",
                                   [kind |-> "list", items |-> <<>>])] }

-----------------------------------------------------------------------------
(* One request served by api.py.  The service calls are the suspension     *)
(* points of the generate-podcast handler.                                 *)

HandleExtract(data, service) ==
    /\ handler_pc = "idle"
    /\ LET out == api_extract_knowledge(data, extractor, service)
       IN  /\ http_response' = out.response
           /\ calls' = IF out.called THEN Append(calls, "answer") ELSE calls
           /\ extraction' = IF out.called
                            THEN [ query   |-> out.query,
                                   service |-> service,
                                   result  |-> Return(out.result) ]
                            ELSE extraction
    /\ request' = [endpoint |-> "/api/extract", data |-> data]
    /\ handler_pc' = "responded"
    /\ UNCHANGED <<pc, args, script_result, script_returned, dialogue_script,
                   audio_result, result, file, speaker_vars, knowledge_result,
                   extractor, podcast_gen, audio_call, workers>>

HandleGeneratePodcast(data) ==
    /\ handler_pc = "idle"
    /\ LET entry == generate_podcast_entry(data, podcast_gen, extractor)
       IN  IF entry.raised
           THEN /\ request' = [endpoint |-> "/api/generate-podcast", data |-> data]
                /\ http_response' = entry.exc
                /\ handler_pc' = "responded"
           ELSE /\ request' = [endpoint |-> "/api/generate-podcast", data |-> data]
                                  @@ entry.value
                /\ handler_pc' = "extract_knowledge"
                /\ UNCHANGED http_response
    /\ UNCHANGED <<podcast_vars, speaker_vars, extraction, knowledge_result,
                   extractor, podcast_gen, audio_call, workers>>

\* knowledge_result = extractor.extract_knowledge(query), then either the
\* failure response or the call of podcast_gen.generate_podcast.
KnowledgeStep(service) ==
    /\ handler_pc = "extract_knowledge"
    /\ LET r == extract_knowledge(request.query, service).value
       IN  /\ knowledge_result' = r
           /\ calls' = Append(calls, "answer")
           /\ IF ~r.success
              THEN /\ http_response' =
                        Response(500, [ success |-> FALSE,
                                        error   |-> "Knowledge extraction failed: "
                                                    \o Get(r, "error", NoneStr) ])
                   /\ handler_pc' = "responded"
                   /\ UNCHANGED <<pc, args>>
              ELSE /\ pc' = "script_stage"
                   /\ args' = [ knowledge       |-> r.answer,
                                topic           |-> request.query,
                                output_path     |-> output_path_of(request.query),
                                num_speakers    |-> request.num_speakers,
                                style           |-> request.style,
                                length          |-> request.length,
                                voice_ids       |-> <<>>,
                                characteristics |-> <<>> ]
                   /\ handler_pc' = "generate_podcast"
                   /\ UNCHANGED http_response
    /\ UNCHANGED <<script_result, script_returned, dialogue_script, audio_result,
                   result, file, speaker_vars, extraction, request, extractor,
                   podcast_gen, audio_call, workers>>

\* The handler resumes when generate_podcast has returned or raised.
HandlerResumes ==
    /\ IF pc' \in {"done", "raised"}
       THEN /\ http_response' = generate_podcast_response(result', file')
            /\ handler_pc' = "responded"
       ELSE UNCHANGED <<http_response, handler_pc>>
    /\ UNCHANGED <<speaker_vars, extraction, request, knowledge_result, extractor,
                   podcast_gen, audio_call, workers>>

HandlerScriptStage(chat) ==
    /\ handler_pc = "generate_podcast"
    /\ RunScriptStage(chat)
    /\ HandlerResumes

HandlerFormatStep ==
    /\ handler_pc = "generate_podcast"
    /\ RunFormatStep
    /\ HandlerResumes

HandlerAudioStage(synth) ==
    /\ handler_pc = "generate_podcast"
    /\ RunAudioStage(synth)
    /\ HandlerResumes

InitHandlers ==
    /\ InitPodcast
    /\ file \in {NoFile, StaleFile}
    /\ InitSpeakers
    /\ InitExtraction
    /\ request = None
    /\ handler_pc = "idle"
    /\ knowledge_result = None
    /\ http_response = None
    /\ extractor \in BOOLEAN
    /\ podcast_gen \in BOOLEAN
    /\ InitAudioCall

NextHandlers ==
    \/ \E data \in RequestBodies, service \in ApiAnswerOutcomes :
            HandleExtract(data, service)
    \/ \E data \in RequestBodies : HandleGeneratePodcast(data)
    \/ \E service \in ApiAnswerOutcomes : KnowledgeStep(service)
    \/ \E chat \in ChatOutcomes : HandlerScriptStage(chat)
    \/ HandlerFormatStep
    \/ \E synth \in SynthOutcomes : HandlerAudioStage(synth)

SpecHandlers == InitHandlers /\ [][NextHandlers]_vars

-----------------------------------------------------------------------------
(* Claims about the handlers. *)

Responded == handler_pc = "responded"

\* The request's query is missing, or is a string that is empty once
\* surrounding whitespace is trimmed.
QueryMissingOrEmpty ==
    /\ request # None
    /\ \/ request.data = None
       \/ "query" \notin DOMAIN request.data
       \/ /\ IsStr(request.data.query)
          /\ \A i \in DOMAIN request.data.query.str :
                request.data.query.str[i] \in Whitespace

\* C11: for a request whose query is missing or empty no external service
\* is ever invoked, and the response to it is a failure; this holds for the
\* extract handler and for the generate-podcast handler alike.
C11_EmptyQueryRejectedBeforeAnyCall ==
    QueryMissingOrEmpty =>
        /\ calls = <<>>
        /\ Responded => ~http_response.body.success


-----------------------------------------------------------------------------
(* Claims about the failure paths of the two stages. *)

\* The chat-completion call raised, or its content is not valid JSON.
Unparseable(chat) == chat.kind \in {"raise", "invalid_json"}

\* str(e) of the exception the script stage caught
ChatExceptionText(chat) ==
    IF chat.kind = "raise" THEN chat.exc ELSE "Expecting value: line 1 column 1 (char 0)"

\* C12: a script stage whose chat-completion call raises or returns content
\* that is not JSON returns {success: False, error: <exception text>} with
\* no script, and generate_podcast returns at once with
\* 'Script generation failed: <exception text>', synthesis never invoked.
C12_UnparseableContentFailsScriptStage ==
    [][ \A chat \in {c \in ChatOutcomes : pc = "script_stage" /\ Unparseable(c)} :
          ScriptStage(chat) =>
              /\ script_returned' = [success |-> FALSE, error |-> ChatExceptionText(chat)]
              /\ pc' = "done"
              /\ result' = Return([ success |-> FALSE,
                                    error   |-> "Script generation failed: "
                                                \o ChatExceptionText(chat) ])
              /\ calls' = <<"chat_completion">> ]_vars

C12_Witness ==
    /\ pc = "done"
    /\ script_returned = [ success |-> FALSE,
                           error   |-> "Expecting value: line 1 column 1 (char 0)" ]
    /\ result = Return([ success |-> FALSE,
                         error   |-> "Script generation failed: Expecting value: line 1 column 1 (char 0)" ])
    /\ "synthesis" \notin Range(calls)



-----------------------------------------------------------------------------
(* Claims about the order of the service calls. *)

ServiceOrder == <<"answer", "chat_completion", "synthesis">>

\* C14: while one request is served, the services invoked so far are an
\* initial part of answer, chat-completion, synthesis: each is called at
\* most once, whatever the earlier calls returned, and in that order.
C14_EachServiceAtMostOnceInOrder ==
    \E k \in 0..Len(ServiceOrder) : calls = SubSeq(ServiceOrder, 1, k)

\* All three services were called and the last one failed.
C14_Witness ==
    /\ Responded
    /\ calls = ServiceOrder
    /\ ~audio_result.success
    /\ ~http_response.body.success


-----------------------------------------------------------------------------
(* Claims about the successful result of generate_podcast. *)

Succeeded == Returned /\ result.value.success

ScriptMetadataKeys == {"topic", "num_speakers", "style", "length", "speaker_config"}

\* C15: in a successful result, metadata holds every key of the script
\* stage's metadata with the same value, plus file_size and
\* estimated_duration as the audio stage returned them, and nothing else;
\* audio_path is the audio stage's audio_path, the requested output_path.
C15_MetadataMerged ==
    Succeeded =>
        LET script_md == script_returned.metadata
            merged    == result.value.metadata
        IN  /\ DOMAIN script_md = ScriptMetadataKeys
            /\ DOMAIN merged = ScriptMetadataKeys \cup {"file_size", "estimated_duration"}
            /\ \A k \in ScriptMetadataKeys : merged[k] = script_md[k]
            /\ merged.topic = args.topic
            /\ merged.style = args.style
            /\ merged.length = args.length
            /\ merged.file_size = audio_result.file_size
            /\ merged.estimated_duration = audio_result.estimated_duration
            /\ result.value.audio_path = audio_result.audio_path
            /\ result.value.audio_path = args.output_path

\* A success with a non-empty speaker_config and a non-empty file.
C15_Witness ==
    /\ Succeeded
    /\ result.value.metadata.speaker_config # <<>>
    /\ result.value.metadata.file_size = 3
    /\ result.value.audio_path = OutputPath


-----------------------------------------------------------------------------
(* Claims about the voice and the persona of each speaker slot. *)

\* The configs of the latest call, slot i being entry i + 1.
Slots == 0..(Len(last_call.configs) - 1)

\* C16: the voice of slot i is voice_ids[i] when the caller's voice_ids has
\* an entry at index i, and entry (i mod 8) of the pool of 8 default voices
\* otherwise; without voice_ids, slot i gets pool entry i.
C16_VoiceOfSlot ==
    Called =>
        /\ Len(available_voices) = 8
        /\ \A i \in Slots :
              last_call.configs[i + 1].voice_id =
                  IF i < Len(last_call.voice_ids)
                  THEN last_call.voice_ids[i + 1]
                  ELSE available_voices[(i % 8) + 1]
        /\ last_call.voice_ids = <<>> =>
              \A i \in Slots : last_call.configs[i + 1].voice_id = available_voices[i + 1]

\* One supplied voice and three padded ones.
C16_Witness ==
    /\ Called
    /\ last_call.voice_ids = <<"custom_voice_A">>
    /\ Len(last_call.configs) = 4
    /\ last_call.configs[1].voice_id = "custom_voice_A"
    /\ last_call.configs[2].voice_id = "IKne3meq5aSn9XLyUdCD"
    /\ last_call.configs[4].voice_id = "VR6AewLTigWG4xSOukaG"


\* Slot i of the latest call has a caller-supplied characteristic that is a
\* known key.
KnownCharacteristic(i) ==
    /\ i < Len(last_call.characteristics)
    /\ last_call.characteristics[i + 1] \in DOMAIN characteristic_map

\* C17: a slot whose characteristic is a known key gets that key's role and
\* personality and the default name of its position (Alex, Jordan, Sam,
\* Riley); any other slot gets the name, role and personality at its
\* position in the table of the requested style; no slot inside the table
\* gets the generic "Speaker" / "Engaging conversationalist" default.
C17_PersonaOfSlot ==
    Called =>
        \A i \in Slots :
            LET entry == last_call.configs[i + 1]
                style == last_call.style
            IN  /\ KnownCharacteristic(i) =>
                      /\ entry.name = <<"Alex", "Jordan", "Sam", "Riley">>[i + 1]
                      /\ <<entry.role, entry.personality>> =
                             characteristic_map[last_call.characteristics[i + 1]]
                /\ ~KnownCharacteristic(i) =>
                      /\ entry.name = speaker_names(style)[i + 1]
                      /\ entry.role = speaker_roles(style)[i + 1]
                      /\ entry.personality = personalities(style)[i + 1]
                /\ i < Len(speaker_names(style)) =>
                      /\ entry.role # "Speaker"
                      /\ entry.personality # "Engaging conversationalist"

\* A casual call: slot 0 has an unknown characteristic, slot 1 a known one,
\* slot 2 none.
C17_Witness ==
    /\ Called
    /\ last_call.style = "casual"
    /\ last_call.characteristics = <<"bogus", "expert">>
    /\ Len(last_call.configs) >= 3
    /\ last_call.configs[1].name = "Sam"
    /\ last_call.configs[1].role = "Co-host"
    /\ last_call.configs[2].name = "Jordan"
    /\ last_call.configs[2].role = characteristic_map["expert"][1]
    /\ last_call.configs[3].name = "Alex"
    /\ last_call.configs[3].personality = "Friendly, engaging, relatable"


-----------------------------------------------------------------------------
(* AudioGenerator.generate_simple_tts, and direct calls of the two         *)
(* AudioGenerator methods on the same output path, one after the other.    *)

\* The body of the try block; synth is the behaviour of
\* text_to_speech.convert, of its stream and of open() for this call.
SimpleTtsBody(text, voice_id, output_path, synth, before) ==
    IF synth.convert_raises \/ synth.stream_raises \/ synth.open_raises
    THEN [outcome |-> Raise(synth.exc), file |-> before]
    ELSE [ outcome |-> Return([success |-> TRUE, audio_path |-> output_path]),
           file    |-> [exists |-> TRUE, data |-> Concat(synth.chunks)] ]

\* try: ... except Exception as e: return {'success': False, 'error': str(e)}
generate_simple_tts(text, voice_id, output_path, synth, before) ==
    LET body == SimpleTtsBody(text, voice_id, output_path, synth, before)
    IN  [ value |-> IF body.outcome.raised
                    THEN [success |-> FALSE, error |-> body.outcome.exc]
                    ELSE body.outcome.value,
          file  |-> body.file ]

DefaultVoiceId == "9BWtsMINqrJLrRacOk9x"

DialogueInputs ==
    { <<>>,
      <<[text |-> "[enthusiastically] Welcome!", voice_id |-> "9BWtsMINqrJLrRacOk9x"]>> }

Texts == {"Hello and welcome."}

CallPodcastAudio(inputs, synth) ==
    /\ LET out == generate_podcast_audio(inputs, OutputPath, synth, file)
       IN  /\ audio_call' = [ method |-> "generate_podcast_audio",
                              inputs |-> inputs,
                              synth  |-> synth,
                              before |-> file,
                              result |-> out.value ]
           /\ file' = out.file
    /\ UNCHANGED <<pc, args, script_result, script_returned, dialogue_script,
                   audio_result, result, calls, speaker_vars, extraction, api_vars,
                   workers>>

CallSimpleTts(text, synth) ==
    /\ LET out == generate_simple_tts(text, DefaultVoiceId, OutputPath, synth, file)
       IN  /\ audio_call' = [ method |-> "generate_simple_tts",
                              inputs |-> text,
                              synth  |-> synth,
                              before |-> file,
                              result |-> out.value ]
           /\ file' = out.file
    /\ UNCHANGED <<pc, args, script_result, script_returned, dialogue_script,
                   audio_result, result, calls, speaker_vars, extraction, api_vars,
                   workers>>

InitAudio ==
    /\ InitPodcast
    /\ file \in {NoFile, StaleFile}
    /\ InitSpeakers
    /\ InitExtraction
    /\ InitApi
    /\ InitAudioCall

NextAudio ==
    \/ \E inputs \in DialogueInputs, synth \in SynthOutcomes : CallPodcastAudio(inputs, synth)
    \/ \E text \in Texts, synth \in SynthOutcomes : CallSimpleTts(text, synth)

SpecAudio == InitAudio /\ [][NextAudio]_vars

-----------------------------------------------------------------------------
(* Claims about the file the audio methods write. *)

AudioCalled == audio_call # None

\* The stream of the latest call ran to its end and the file could be opened.
StreamCompleted ==
    /\ AudioCalled
    /\ ~audio_call.synth.convert_raises
    /\ ~audio_call.synth.stream_raises
    /\ ~audio_call.synth.open_raises

\* The number of bytes in the chunks before chunk k.
RECURSIVE Offset(_, _)
Offset(chunks, k) ==
    IF k <= 1 THEN 0 ELSE Offset(chunks, k - 1) + Len(chunks[k - 1])

\* The synthesis stream yields some chunks and then raises.
RaisesMidStream(synth) ==
    ~synth.convert_raises /\ synth.stream_raises /\ synth.chunks # <<>>

\* C13: when the synthesis stream raises after yielding some chunks,
\* generate_podcast_audio returns success False with the exception text and
\* the file at output_path is what it was before the call: absent if it was
\* absent, its old content otherwise.
C13_MidStreamFailureLeavesFileUntouched ==
    ( /\ AudioCalled
      /\ audio_call.method = "generate_podcast_audio"
      /\ RaisesMidStream(audio_call.synth) ) =>
        /\ audio_call.result = [success |-> FALSE, error |-> audio_call.synth.exc]
        /\ file = audio_call.before

\* The stream raised after two chunks while an older file was in place.
C13_Witness ==
    /\ AudioCalled
    /\ audio_call.method = "generate_podcast_audio"
    /\ RaisesMidStream(audio_call.synth)
    /\ Len(audio_call.synth.chunks) = 2
    /\ audio_call.before = StaleFile
    /\ audio_call.result = [success |-> FALSE, error |-> "stream interrupted"]
    /\ file = StaleFile

\* C18: after a call of generate_podcast_audio or generate_simple_tts whose
\* stream ran to its end, the file at output_path holds the bytes of every
\* returned chunk, chunk after chunk in arrival order, and nothing else,
\* whatever the file held before.
C18_FileIsConcatenationOfChunks ==
    StreamCompleted =>
        LET chunks == audio_call.synth.chunks
        IN  /\ audio_call.result.success
            /\ file.exists
            /\ Len(file.data) = Offset(chunks, Len(chunks) + 1)
            /\ \A k \in DOMAIN chunks : \A j \in DOMAIN chunks[k] :
                   file.data[Offset(chunks, k) + j] = chunks[k][j]

\* generate_simple_tts replaced a file that held other bytes by two chunks.
C18_Witness ==
    /\ StreamCompleted
    /\ audio_call.method = "generate_simple_tts"
    /\ audio_call.before.exists
    /\ audio_call.before.data = <<9>>
    /\ audio_call.synth.chunks = << <<2, 3>>, <<1>> >>
    /\ file.data = <<2, 3, 1>>


\* The latest call is a generate_podcast_audio call that returned success.
PodcastAudioSucceeded ==
    /\ AudioCalled
    /\ audio_call.method = "generate_podcast_audio"
    /\ audio_call.result.success

\* C19: a successful generate_podcast_audio result carries audio_path,
\* file_size and estimated_duration, the file exists at the requested path,
\* file_size is greater than 0 and estimated_duration is positive, for every
\* chunk sequence the service returns, the empty one included.
C19_SuccessMeansNonEmptyAudio ==
    PodcastAudioSucceeded =>
        /\ {"audio_path", "file_size", "estimated_duration"} \subseteq DOMAIN audio_call.result
        /\ audio_call.result.audio_path = OutputPath
        /\ file.exists
        /\ audio_call.result.file_size > 0
        /\ audio_call.result.estimated_duration.num > 0


-----------------------------------------------------------------------------
(* Claims about the sources of an extraction. *)

ExtractionSucceeded ==
    Extracted /\ ~extraction.result.raised /\ extraction.result.value.success

\* The search_results of the service response, empty if it has none.
SearchResultsOf(resp) ==
    IF "search_results" \in DOMAIN resp THEN resp.search_results.items ELSE <<>>

\* The value of a field of a search result, or d if the result lacks it.
FieldOr(entry, field, d) ==
    IF field \in DOMAIN entry.fields THEN entry.fields[field] ELSE d

\* C20: the sources of a successful extraction are, entry for entry and in
\* the same order, the search_results of the service response, each reduced
\* to title, url, source and relevance_score, a missing field being
\* 'Unknown', '', 'Web' and 0; without search_results, sources is empty.
C20_SourcesMirrorSearchResults ==
    ExtractionSucceeded =>
        LET results == SearchResultsOf(extraction.service.response)
            sources == extraction.result.value.sources
        IN  /\ DOMAIN sources = DOMAIN results
            /\ \A i \in DOMAIN results :
                  sources[i] = [ title           |-> FieldOr(results[i], "title", "Unknown"),
                                 url             |-> FieldOr(results[i], "url", ""),
                                 source          |-> FieldOr(results[i], "source", "Web"),
                                 relevance_score |-> FieldOr(results[i], "relevance_score", 0) ]
            /\ results = <<>> => sources = <<>>

\* An attribute-like result without title, followed by a dict-like one.
C20_Witness ==
    /\ ExtractionSucceeded
    /\ Len(SearchResultsOf(extraction.service.response)) = 2
    /\ ~SearchResultsOf(extraction.service.response)[1].is_dict
    /\ extraction.result.value.sources =
           << [ title |-> "Unknown", url |-> "https://b.example", source |-> "Web",
                relevance_score |-> 5 ],
              [ title |-> "Only a title", url |-> "", source |-> "Web",
                relevance_score |-> 0 ] >>


-----------------------------------------------------------------------------
(* Claims about the generate-podcast handler. *)

\* The handler has called podcast_gen.generate_podcast.
GenerationStarted == handler_pc \in {"generate_podcast", "responded"} /\ args # None

Mp3 == <<".", "m", "p", "3">>

\* C21: the audio file name is the query cut to at most 50 characters
\* followed by ".mp3", holds no whitespace character and no slash, and the
\* file is placed directly inside the podcasts directory.
C21_FileNameSanitized ==
    GenerationStarted =>
        LET name == args.output_path.name
            stem == SubSeq(name, 1, Len(name) - Len(Mp3))
        IN  /\ Len(stem) = Min(Len(request.query), 50)
            /\ SubSeq(name, Len(stem) + 1, Len(name)) = Mp3
            /\ \A i \in DOMAIN name : name[i] \notin Whitespace \cup {"/"}
            /\ args.output_path.dir = "podcasts"


KnowledgeFailed == knowledge_result # None /\ ~knowledge_result.success

\* podcast_gen.generate_podcast returned a failure.
PodcastFailed == Responded /\ pc = "done" /\ ~result.raised /\ ~result.value.success

\* C22: when knowledge extraction fails the handler answers
\* 'Knowledge extraction failed: <error>' and the podcast generator is never
\* invoked (no chat-completion, no synthesis); when the podcast generator
\* returns a failure the handler answers with that stage-prefixed error and
\* no audio data, also when an older file is at the output path.
C22_FailuresStopTheHandler ==
    /\ KnowledgeFailed =>
          /\ Responded
          /\ http_response =
                 Response(500, [ success |-> FALSE,
                                 error   |-> "Knowledge extraction failed: "
                                             \o knowledge_result.error ])
          /\ calls = <<"answer">>
          /\ pc = "idle"
          /\ args = None
    /\ PodcastFailed =>
          /\ http_response.status = 500
          /\ http_response.body = [success |-> FALSE, error |-> result.value.error]
          /\ result.value.error \in
                 { "Script generation failed: " \o Get(script_returned, "error", ""),
                   "Audio generation failed: " \o Get(audio_result, "error", "") }

\* The audio stage failed while an older file was at the output path.
C22_Witness ==
    /\ PodcastFailed
    /\ file = StaleFile
    /\ calls = ServiceOrder
    /\ http_response.body.error = "Audio generation failed: quota_exceeded"

\* Knowledge extraction failed.
C22_WitnessKnowledge ==
    /\ KnowledgeFailed
    /\ Responded
    /\ http_response.body.error = "Knowledge extraction failed: Connection refused"


-----------------------------------------------------------------------------
(* Two generate-podcast requests served by two threads of the same process *)
(* (app.run serves each request in its own thread).  Both queries have the *)
(* same first 50 characters, so both requests use the same output path and *)
(* `file` is the file at that path.  A request is followed from the audio  *)
(* stage on: the stages before it touch no state the requests share.  The  *)
(* chunks written through the buffered file object reach the file when the *)
(* with-block closes it.                                                   *)

Workers == {"A", "B"}

\* The bytes of the file after `buffer` is written at offset 0 of `old`.
Overwrite(old, buffer) == buffer \o SubSeq(old, Len(buffer) + 1, Len(old))

WorkerFailed(exc) ==
    Response(500, [success |-> FALSE, error |-> "Audio generation failed: " \o exc])

\* text_to_dialogue.convert and the loop that collects the chunks
WorkerSynthesize(w, synth) ==
    /\ workers[w].pc = "synthesis"
    /\ workers' = [workers EXCEPT ![w] =
          IF synth.convert_raises \/ synth.stream_raises
          THEN [@ EXCEPT !.pc = "responded", !.synth = synth,
                         !.response = WorkerFailed(synth.exc)]
          ELSE [@ EXCEPT !.pc = "open", !.synth = synth]]
    /\ UNCHANGED <<podcast_vars, speaker_vars, extraction, api_vars, audio_call>>

\* open(output_path, 'wb') creates the file or truncates it
WorkerOpen(w) ==
    /\ workers[w].pc = "open"
    /\ IF workers[w].synth.open_raises
       THEN /\ workers' = [workers EXCEPT ![w].pc = "responded",
                                          ![w].response = WorkerFailed(workers[w].synth.exc)]
            /\ UNCHANGED file
       ELSE /\ workers' = [workers EXCEPT ![w].pc = "close"]
            /\ file' = [exists |-> TRUE, data |-> <<>>]
    /\ UNCHANGED <<pc, args, script_result, script_returned, dialogue_script,
                   audio_result, result, calls, speaker_vars, extraction, api_vars,
                   audio_call>>

\* the end of the with-block: the buffered chunks are written from offset 0
WorkerClose(w) ==
    /\ workers[w].pc = "close"
    /\ file' = [exists |-> TRUE,
                data   |-> Overwrite(file.data, Concat(workers[w].synth.chunks))]
    /\ workers' = [workers EXCEPT ![w].pc = "getsize"]
    /\ UNCHANGED <<pc, args, script_result, script_returned, dialogue_script,
                   audio_result, result, calls, speaker_vars, extraction, api_vars,
                   audio_call>>

\* os.path.getsize(output_path) and the success return of both stages
WorkerGetSize(w) ==
    /\ workers[w].pc = "getsize"
    /\ workers' = [workers EXCEPT ![w].pc = "read",
                                  ![w].file_size = Len(file.data)]
    /\ UNCHANGED <<podcast_vars, speaker_vars, extraction, api_vars, audio_call>>

\* the handler reads the file back and responds
WorkerRead(w) ==
    /\ workers[w].pc = "read"
    /\ workers' = [workers EXCEPT
          ![w].pc = "responded",
          ![w].response =
              Response(200, [ success        |-> TRUE,
                              audio_data     |-> b64encode(file.data),
                              audio_filename |-> basename(workers[w].output_path),
                              file_size      |-> workers[w].file_size ])]
    /\ UNCHANGED <<podcast_vars, speaker_vars, extraction, api_vars, audio_call>>

ConcurrentQueries == {LongQuery, LongQuery \o <<"y">>}

NewWorker(query) ==
    [ query       |-> query,
      output_path |-> output_path_of(query),
      pc          |-> "synthesis",
      synth       |-> None,
      file_size   |-> 0,
      response    |-> None ]

InitConcurrent ==
    /\ InitPodcast
    /\ file \in {NoFile, StaleFile}
    /\ InitSpeakers
    /\ InitExtraction
    /\ InitApi
    /\ audio_call = None
    /\ \E q \in ConcurrentQueries :
          workers = [w \in Workers |-> NewWorker(IF w = "A" THEN LongQuery ELSE q)]

NextConcurrent ==
    \E w \in Workers :
        \/ \E synth \in SynthOutcomes : WorkerSynthesize(w, synth)
        \/ WorkerOpen(w)
        \/ WorkerClose(w)
        \/ WorkerGetSize(w)
        \/ WorkerRead(w)

SpecConcurrent == InitConcurrent /\ [][NextConcurrent]_vars

\* C23: every successful response carries the encoding of the chunks that
\* were synthesized for its own request, also when another request with the
\* same file name is served at the same time.
C23_AudioIsOwnRequest ==
    \A w \in Workers :
        ( /\ workers[w].pc = "responded"
          /\ workers[w].response.body.success
          /\ workers["A"].output_path = workers["B"].output_path ) =>
            workers[w].response.body.audio_data = b64encode(Concat(workers[w].synth.chunks))

-----------------------------------------------------------------------------
(* Claims about the metadata of the script stage. *)

ScriptStageSucceeded == script_returned # None /\ script_returned.success

\* C24: in every successful script-stage result, metadata.num_speakers is
\* the number of entries of metadata.speaker_config, and that list is the
\* one _get_speaker_config built for the call (the list the prompt is made
\* from), for every num_speakers the caller passes, values above 4 included.
C24_NumSpeakersCountsTheConfig ==
    ScriptStageSucceeded =>
        /\ script_returned.metadata.speaker_config =
               _get_speaker_config(args.num_speakers, args.style,
                                   args.voice_ids, args.characteristics)
        /\ script_returned.metadata.num_speakers =
               Len(script_returned.metadata.speaker_config)

=============================================================================
